---- MODULE Spec2Model ----
(***************************************************************************)
(* The network (CODASYL) database engine of network_database_model.py:     *)
(* Record, NetworkSet and NetworkDatabase with its currency indicator.     *)
(*                                                                         *)
(* Record objects live in a heap indexed by object identity (1..n), since  *)
(* the engine stores references: two Records may carry the same            *)
(* record_type, data and record_id and still be different objects.         *)
(* A Python dict is a sequence of [key, val] entries in insertion order.   *)
(***************************************************************************)
EXTENDS Integers, Sequences, FiniteSets, TLC

VARIABLES
    heap,            \* object identity -> the Record object's fields
    records,         \* NetworkDatabase.records: record_id -> Record
    sets,            \* NetworkDatabase.sets: set_name -> NetworkSet
    current_record,  \* NetworkDatabase.current_record, the currency indicator
    stored,          \* history: the Records that were passed to store_record
    connected,       \* history: set_name -> the owners of the connects completed
                     \* under the set's current definition, by first connect
    op,              \* the last call and its arguments
    ret,             \* what the last call returned, or that it raised
    nodes,           \* object identity -> the HierarchicalNode object's fields
    root             \* HierarchicalDatabase.root

vars == <<heap, records, sets, current_record, stored, connected, op, ret,
          nodes, root>>

(* the state of hierarchical_database_model.py, which the network engine   *)
(* neither reads nor writes                                                *)
hierarchy == <<nodes, root>>

(* Bound on the number of connects that reach NetworkSet.connect's appends. *)
MaxConnects == 2

(* Optional[Record] = None *)
None == 0

(***************************************************************************)
(* Inputs of the callers.                                                  *)
(***************************************************************************)
SetNames == {"DEPT_EMP"}

RecordIds == {"D001", "E001", "X999"}

TypePairs == {<<"Department", "Employee">>}

(* Record(record_type, data, record_id): the links start as empty dicts. *)
Record(record_type, data, record_id) ==
    [record_type |-> record_type, data |-> data, record_id |-> record_id,
     owner_links |-> <<>>, member_links |-> <<>>]

(* The Record objects the caller has constructed: objects 1 and 2 are two   *)
(* objects with equal fields, object 3 has another type and id.            *)
Pool ==
    <<Record("Department", "Engineering", "D001"),
      Record("Department", "Engineering", "D001"),
      Record("Employee", "Alice", "E001")>>

Objs == DOMAIN heap

(***************************************************************************)
(* dict operations                                                         *)
(***************************************************************************)
DictHas(d, k) == \E i \in 1..Len(d) : d[i].key = k

DictGet(d, k) == d[CHOOSE i \in 1..Len(d) : d[i].key = k].val

DictPut(d, k, v) ==
    IF DictHas(d, k)
    THEN [i \in 1..Len(d) |-> IF d[i].key = k THEN [key |-> k, val |-> v] ELSE d[i]]
    ELSE Append(d, [key |-> k, val |-> v])

DictKeys(d) == {d[i].key : i \in 1..Len(d)}

(***************************************************************************)
(* Record.__eq__ as @dataclass generates it: the tuples of the five fields *)
(* are compared left to right, stopping at the first difference.  Nested   *)
(* Records are compared with the identity shortcut of container            *)
(* comparison and otherwise by __eq__ again.  The result is "T", "F", or   *)
(* "E" when the comparison never returns (RecursionError): with n objects  *)
(* a nesting deeper than n*n pairs repeats a pair and so never ends.       *)
(***************************************************************************)
EqFuel == Cardinality(Objs) * Cardinality(Objs) + 1

RECURSIVE RecordEq(_, _, _)
RECURSIVE ListEqFrom(_, _, _, _)
RECURSIVE OwnerLinksEqFrom(_, _, _, _)
RECURSIVE MemberLinksEqFrom(_, _, _, _)

(* PyObject_RichCompareBool on two Record references *)
ObjEq(a, b, fuel) == IF a = b THEN "T" ELSE RecordEq(a, b, fuel - 1)

ListEqFrom(la, lb, i, fuel) ==
    IF i > Len(la) THEN "T"
    ELSE LET r == ObjEq(la[i], lb[i], fuel)
         IN  IF r # "T" THEN r ELSE ListEqFrom(la, lb, i + 1, fuel)

ListEq(la, lb, fuel) ==
    IF Len(la) # Len(lb) THEN "F" ELSE ListEqFrom(la, lb, 1, fuel)

OwnerLinksEqFrom(da, db, i, fuel) ==
    IF i > Len(da) THEN "T"
    ELSE IF ~DictHas(db, da[i].key) THEN "F"
    ELSE LET r == ObjEq(da[i].val, DictGet(db, da[i].key), fuel)
         IN  IF r # "T" THEN r ELSE OwnerLinksEqFrom(da, db, i + 1, fuel)

OwnerLinksEq(da, db, fuel) ==
    IF Len(da) # Len(db) THEN "F" ELSE OwnerLinksEqFrom(da, db, 1, fuel)

MemberLinksEqFrom(da, db, i, fuel) ==
    IF i > Len(da) THEN "T"
    ELSE IF ~DictHas(db, da[i].key) THEN "F"
    ELSE LET r == ListEq(da[i].val, DictGet(db, da[i].key), fuel)
         IN  IF r # "T" THEN r ELSE MemberLinksEqFrom(da, db, i + 1, fuel)

MemberLinksEq(da, db, fuel) ==
    IF Len(da) # Len(db) THEN "F" ELSE MemberLinksEqFrom(da, db, 1, fuel)

RecordEq(a, b, fuel) ==
    IF a = b THEN "T"
    ELSE IF fuel <= 0 THEN "E"
    ELSE IF heap[a].record_type # heap[b].record_type THEN "F"
    ELSE IF heap[a].data # heap[b].data THEN "F"
    ELSE IF heap[a].record_id # heap[b].record_id THEN "F"
    ELSE LET o == OwnerLinksEq(heap[a].owner_links, heap[b].owner_links, fuel)
         IN  IF o # "T" THEN o
             ELSE MemberLinksEq(heap[a].member_links, heap[b].member_links, fuel)

(* inst['owner'] == owner *)
Record__eq__(a, b) == RecordEq(a, b, EqFuel)

(***************************************************************************)
(* NetworkSet                                                              *)
(***************************************************************************)
NetworkSet(set_name, owner_type, member_type) ==
    [set_name |-> set_name, owner_type |-> owner_type,
     member_type |-> member_type, instances |-> <<>>]

(* The search loop of connect: the index of the first instance whose owner *)
(* equals `owner`, 0 when the loop ends without one, -1 when a comparison  *)
(* raises before one is found.                                             *)
RECURSIVE FindInstanceFrom(_, _, _)
FindInstanceFrom(instances, owner, i) ==
    IF i > Len(instances) THEN 0
    ELSE LET r == Record__eq__(instances[i].owner, owner)
         IN  IF r = "T" THEN i
             ELSE IF r = "E" THEN -1
             ELSE FindInstanceFrom(instances, owner, i + 1)

FindInstance(instances, owner) == FindInstanceFrom(instances, owner, 1)

(* instance['members'].append(member), on a found or a new instance *)
AddToInstances(instances, owner, member) ==
    LET i == FindInstance(instances, owner)
    IN  IF i = 0
        THEN Append(instances, [owner |-> owner, members |-> <<member>>])
        ELSE [instances EXCEPT ![i].members = Append(@, member)]

(* Faulty variant: the forward pointer owner.member_links is not maintained. *)
LinkRecords_no_forward(h, set_name, owner, member) ==
    [h EXCEPT ![member].owner_links = DictPut(@, set_name, owner)]

(* Faulty variant: owner_links.setdefault(set_name, owner) keeps the first owner. *)
LinkRecords_keeps_first_owner(h, set_name, owner, member) ==
    LET old == IF DictHas(h[owner].member_links, set_name)
               THEN DictGet(h[owner].member_links, set_name) ELSE <<>>
        h1  == [h EXCEPT ![owner].member_links =
                              DictPut(@, set_name, Append(old, member))]
    IN  IF DictHas(h1[member].owner_links, set_name) THEN h1
        ELSE [h1 EXCEPT ![member].owner_links = DictPut(@, set_name, owner)]

(* Faulty variant: owner.member_links[set_name].insert(0, member), the new *)
(* member is put in front of the earlier ones.                             *)
LinkRecords_prepends(h, set_name, owner, member) ==
    LET old == IF DictHas(h[owner].member_links, set_name)
               THEN DictGet(h[owner].member_links, set_name) ELSE <<>>
        h1  == [h EXCEPT ![owner].member_links =
                              DictPut(@, set_name, <<member>> \o old)]
    IN  [h1 EXCEPT ![member].owner_links = DictPut(@, set_name, owner)]

(* Faulty variant: member.owner_links = {set_name: owner}, which drops the *)
(* member's owner links under the other set names.                         *)
LinkRecords_resets_owner_links(h, set_name, owner, member) ==
    LET old == IF DictHas(h[owner].member_links, set_name)
               THEN DictGet(h[owner].member_links, set_name) ELSE <<>>
        h1  == [h EXCEPT ![owner].member_links =
                              DictPut(@, set_name, Append(old, member))]
    IN  [h1 EXCEPT ![member].owner_links = DictPut(<<>>, set_name, owner)]

(* owner.member_links[set_name].append(member); member.owner_links[set_name] = owner *)
LinkRecords(h, set_name, owner, member) ==
    LET old == IF DictHas(h[owner].member_links, set_name)
               THEN DictGet(h[owner].member_links, set_name) ELSE <<>>
        h1  == [h EXCEPT ![owner].member_links =
                              DictPut(@, set_name, Append(old, member))]
    IN  [h1 EXCEPT ![member].owner_links = DictPut(@, set_name, owner)]

(* The number of entries of all member_links: one per completed connect. *)
RECURSIVE SumLens(_, _)
SumLens(d, i) == IF i > Len(d) THEN 0 ELSE Len(d[i].val) + SumLens(d, i + 1)

RECURSIVE TotalLinksUpTo(_)
TotalLinksUpTo(n) ==
    IF n = 0 THEN 0 ELSE SumLens(heap[n].member_links, 1) + TotalLinksUpTo(n - 1)

TotalLinks == TotalLinksUpTo(Cardinality(Objs))

(***************************************************************************)
(* The calls and their results                                             *)
(***************************************************************************)
Call(name) ==
    [name |-> name, set_name |-> "", record_id |-> "", record |-> None,
     owner |-> None, member |-> None, owner_type |-> "", member_type |-> ""]

RetNone == [kind |-> "None", rec |-> None, list |-> <<>>]
RetRecord(r) == [kind |-> "Record", rec |-> r, list |-> <<>>]
RetList(l) == [kind |-> "list", rec |-> None, list |-> l]
RetRaise == [kind |-> "RecursionError", rec |-> None, list |-> <<>>]

(***************************************************************************)
(* NetworkDatabase                                                         *)
(***************************************************************************)
Init ==
    /\ heap = Pool
    /\ records = <<>>
    /\ sets = <<>>
    /\ current_record = None
    /\ stored = {}
    /\ connected = <<>>
    /\ op = Call("__init__")
    /\ ret = RetNone
    /\ nodes = <<>>
    /\ root = None

(* Faulty variant: a set name that is already registered keeps its definition *)
(* and its instances (dict.setdefault instead of assignment).                *)
define_set_keeps_existing(set_name, owner_type, member_type) ==
    /\ sets' = [n \in DOMAIN sets \cup {set_name} |->
                   IF n \in DOMAIN sets
                   THEN sets[n]
                   ELSE NetworkSet(set_name, owner_type, member_type)]
    /\ op' = [Call("define_set") EXCEPT !.set_name = set_name,
                  !.owner_type = owner_type, !.member_type = member_type]
    /\ ret' = RetNone
    /\ connected' = [n \in DOMAIN sets \cup {set_name} |->
                        IF n \in DOMAIN sets THEN connected[n] ELSE <<>>]
    /\ UNCHANGED <<heap, records, current_record, stored>>
    /\ UNCHANGED hierarchy

define_set(set_name, owner_type, member_type) ==
    /\ sets' = [n \in DOMAIN sets \cup {set_name} |->
                   IF n = set_name
                   THEN NetworkSet(set_name, owner_type, member_type)
                   ELSE sets[n]]
    /\ op' = [Call("define_set") EXCEPT !.set_name = set_name,
                  !.owner_type = owner_type, !.member_type = member_type]
    /\ ret' = RetNone
    /\ connected' = [n \in DOMAIN sets \cup {set_name} |->
                        IF n = set_name THEN <<>> ELSE connected[n]]
    /\ UNCHANGED <<heap, records, current_record, stored>>
    /\ UNCHANGED hierarchy

(* Faulty variant: a record_id that is already present keeps its first record. *)
store_record_keeps_first(record) ==
    /\ records' = [k \in DOMAIN records \cup {heap[record].record_id} |->
                      IF k \in DOMAIN records THEN records[k] ELSE record]
    /\ op' = [Call("store_record") EXCEPT !.record = record]
    /\ ret' = RetRecord(record)
    /\ stored' = stored \cup {record}
    /\ UNCHANGED <<heap, sets, current_record, connected>>
    /\ UNCHANGED hierarchy

(* Faulty variant: STORE also makes the stored record the current record. *)
store_record_sets_currency(record) ==
    /\ records' = [k \in DOMAIN records \cup {heap[record].record_id} |->
                      IF k = heap[record].record_id THEN record ELSE records[k]]
    /\ op' = [Call("store_record") EXCEPT !.record = record]
    /\ ret' = RetRecord(record)
    /\ stored' = stored \cup {record}
    /\ current_record' = record
    /\ UNCHANGED <<heap, sets, connected>>
    /\ UNCHANGED hierarchy

store_record(record) ==
    /\ records' = [k \in DOMAIN records \cup {heap[record].record_id} |->
                      IF k = heap[record].record_id THEN record ELSE records[k]]
    /\ op' = [Call("store_record") EXCEPT !.record = record]
    /\ ret' = RetRecord(record)
    /\ stored' = stored \cup {record}
    /\ UNCHANGED <<heap, sets, current_record, connected>>
    /\ UNCHANGED hierarchy

(* Faulty variant: self.current_record = self.records.get(record_id), so a *)
(* miss unsets the currency indicator.                                     *)
find_record_unsets_on_miss(record_id) ==
    /\ op' = [Call("find_record") EXCEPT !.record_id = record_id]
    /\ IF record_id \in DOMAIN records
       THEN /\ current_record' = records[record_id]
            /\ ret' = RetRecord(records[record_id])
       ELSE /\ current_record' = None
            /\ ret' = RetNone
    /\ UNCHANGED <<heap, records, sets, stored, connected>>
    /\ UNCHANGED hierarchy

(* Faulty variant: the record is returned but the currency indicator is not set. *)
find_record_keeps_cursor(record_id) ==
    /\ op' = [Call("find_record") EXCEPT !.record_id = record_id]
    /\ ret' = IF record_id \in DOMAIN records
              THEN RetRecord(records[record_id]) ELSE RetNone
    /\ UNCHANGED <<heap, records, sets, current_record, stored, connected>>
    /\ UNCHANGED hierarchy

find_record(record_id) ==
    /\ op' = [Call("find_record") EXCEPT !.record_id = record_id]
    /\ IF record_id \in DOMAIN records
       THEN /\ current_record' = records[record_id]
            /\ ret' = RetRecord(records[record_id])
       ELSE /\ current_record' = current_record
            /\ ret' = RetNone
    /\ UNCHANGED <<heap, records, sets, stored, connected>>
    /\ UNCHANGED hierarchy

(* Faulty variant: the owner is returned but the currency indicator stays. *)
find_owner_keeps_cursor(set_name) ==
    /\ op' = [Call("find_owner_in_set") EXCEPT !.set_name = set_name]
    /\ ret' = IF /\ current_record # None
                 /\ DictHas(heap[current_record].owner_links, set_name)
              THEN RetRecord(DictGet(heap[current_record].owner_links, set_name))
              ELSE RetNone
    /\ UNCHANGED <<heap, records, sets, current_record, stored, connected>>
    /\ UNCHANGED hierarchy

find_owner_in_set(set_name) ==
    /\ op' = [Call("find_owner_in_set") EXCEPT !.set_name = set_name]
    /\ IF /\ current_record # None
          /\ DictHas(heap[current_record].owner_links, set_name)
       THEN /\ current_record' = DictGet(heap[current_record].owner_links, set_name)
            /\ ret' = RetRecord(DictGet(heap[current_record].owner_links, set_name))
       ELSE /\ current_record' = current_record
            /\ ret' = RetNone
    /\ UNCHANGED <<heap, records, sets, stored, connected>>
    /\ UNCHANGED hierarchy

(* Faulty variant: FIND FIRST MEMBER, the first member becomes the current record. *)
find_members_moves_cursor(set_name) ==
    /\ op' = [Call("find_members_in_set") EXCEPT !.set_name = set_name]
    /\ IF /\ current_record # None
          /\ DictHas(heap[current_record].member_links, set_name)
       THEN /\ ret' = RetList(DictGet(heap[current_record].member_links, set_name))
            /\ current_record' =
                   DictGet(heap[current_record].member_links, set_name)[1]
       ELSE /\ ret' = RetList(<<>>)
            /\ current_record' = current_record
    /\ UNCHANGED <<heap, records, sets, stored, connected>>
    /\ UNCHANGED hierarchy

find_members_in_set(set_name) ==
    /\ op' = [Call("find_members_in_set") EXCEPT !.set_name = set_name]
    /\ ret' = IF /\ current_record # None
                 /\ DictHas(heap[current_record].member_links, set_name)
              THEN RetList(DictGet(heap[current_record].member_links, set_name))
              ELSE RetList(<<>>)
    /\ UNCHANGED <<heap, records, sets, current_record, stored, connected>>
    /\ UNCHANGED hierarchy

(* the owners first connected so far, with `owner` added at its first connect *)
FirstConnect(seq, owner) ==
    IF \E i \in 1..Len(seq) : seq[i] = owner THEN seq ELSE Append(seq, owner)

(* Faulty variant: the records are linked even when the set is not registered. *)
connect_records_unchecked(set_name, owner, member) ==
    /\ op' = [Call("connect_records") EXCEPT !.set_name = set_name,
                  !.owner = owner, !.member = member]
    /\ IF set_name \notin DOMAIN sets
       THEN /\ TotalLinks < MaxConnects
            /\ heap' = LinkRecords(heap, set_name, owner, member)
            /\ ret' = RetNone
            /\ UNCHANGED <<sets, connected>>
       ELSE IF FindInstance(sets[set_name].instances, owner) = -1
       THEN /\ ret' = RetRaise
            /\ UNCHANGED <<heap, sets, connected>>
       ELSE /\ sets' = [sets EXCEPT ![set_name].instances =
                                        AddToInstances(@, owner, member)]
            /\ heap' = LinkRecords(heap, sets[set_name].set_name, owner, member)
            /\ connected' = [connected EXCEPT ![set_name] = FirstConnect(@, owner)]
            /\ ret' = RetNone
    /\ UNCHANGED <<records, current_record, stored>>
    /\ UNCHANGED hierarchy

(* Faulty variant: CONNECT also makes the connected member the current record. *)
connect_records_sets_currency(set_name, owner, member) ==
    /\ op' = [Call("connect_records") EXCEPT !.set_name = set_name,
                  !.owner = owner, !.member = member]
    /\ IF set_name \notin DOMAIN sets
       THEN /\ ret' = RetNone
            /\ UNCHANGED <<heap, sets, connected, current_record>>
       ELSE IF FindInstance(sets[set_name].instances, owner) = -1
       THEN /\ ret' = RetRaise
            /\ UNCHANGED <<heap, sets, connected, current_record>>
       ELSE /\ sets' = [sets EXCEPT ![set_name].instances =
                                        AddToInstances(@, owner, member)]
            /\ heap' = LinkRecords(heap, sets[set_name].set_name, owner, member)
            /\ connected' = [connected EXCEPT ![set_name] = FirstConnect(@, owner)]
            /\ current_record' = member
            /\ ret' = RetNone
    /\ UNCHANGED <<records, stored>>
    /\ UNCHANGED hierarchy

connect_records(set_name, owner, member) ==
    /\ op' = [Call("connect_records") EXCEPT !.set_name = set_name,
                  !.owner = owner, !.member = member]
    /\ IF set_name \notin DOMAIN sets
       THEN /\ ret' = RetNone
            /\ UNCHANGED <<heap, sets, connected>>
       ELSE IF FindInstance(sets[set_name].instances, owner) = -1
       THEN /\ ret' = RetRaise
            /\ UNCHANGED <<heap, sets, connected>>
       ELSE /\ sets' = [sets EXCEPT ![set_name].instances =
                                        AddToInstances(@, owner, member)]
            /\ heap' = LinkRecords(heap, sets[set_name].set_name, owner, member)
            /\ connected' = [connected EXCEPT ![set_name] = FirstConnect(@, owner)]
            /\ ret' = RetNone
    /\ UNCHANGED <<records, current_record, stored>>
    /\ UNCHANGED hierarchy

(* connect_records(set_name, owner, _) reaches NetworkSet.connect's appends *)
Links(set_name, owner) ==
    /\ set_name \in DOMAIN sets
    /\ FindInstance(sets[set_name].instances, owner) # -1

(* The callers stop linking once `max` links exist; calls that link nothing *)
(* stay possible.                                                          *)
Within(max, set_name, owner) == Links(set_name, owner) => TotalLinks < max

Next ==
    \/ \E n \in SetNames, t \in TypePairs : define_set(n, t[1], t[2])
    \/ \E r \in Objs : store_record(r)
    \/ \E id \in RecordIds : find_record(id)
    \/ \E n \in SetNames : find_owner_in_set(n)
    \/ \E n \in SetNames : find_members_in_set(n)
    \/ \E n \in SetNames, o \in Objs, m \in Objs :
           Within(MaxConnects, n, o) /\ connect_records(n, o, m)

Spec == Init /\ [][Next]_vars

(***************************************************************************)
(* A schema of two set types over the sample records D001 and E002         *)
(* (build_sample_database): each set name can be defined, and redefined,   *)
(* with either pair of record types.                                       *)
(***************************************************************************)
SchemaNames == {"DEPT_EMP", "EMP_PROJ"}

SchemaTypes == {<<"Department", "Employee">>, <<"Employee", "Project">>}

SchemaIds == {"D001", "E002"}

SchemaPool ==
    <<Record("Department", "Engineering", "D001"),
      Record("Employee", "Bob", "E002")>>

InitSchema ==
    /\ heap = SchemaPool
    /\ records = <<>>
    /\ sets = <<>>
    /\ current_record = None
    /\ stored = {}
    /\ connected = <<>>
    /\ op = Call("__init__")
    /\ ret = RetNone
    /\ nodes = <<>>
    /\ root = None

NextSchema ==
    \/ \E n \in SchemaNames, t \in SchemaTypes : define_set(n, t[1], t[2])
    \/ \E r \in Objs : store_record(r)
    \/ \E id \in SchemaIds : find_record(id)
    \/ \E n \in SchemaNames : find_owner_in_set(n)
    \/ \E n \in SchemaNames : find_members_in_set(n)
    \/ \E n \in SchemaNames, o \in Objs, m \in Objs :
           Within(MaxConnects, n, o) /\ connect_records(n, o, m)

SpecSchema == InitSchema /\ [][NextSchema]_vars

(***************************************************************************)
(* Schema definition and link maintenance alone, with one more connect:    *)
(* define_set and connect_records read neither records nor the cursor,     *)
(* which are all that the other operations change.                         *)
(***************************************************************************)
MaxLinks == 3

NextLinking ==
    \/ \E n \in SetNames, t \in TypePairs : define_set(n, t[1], t[2])
    \/ \E n \in SetNames, o \in Objs, m \in Objs :
           Within(MaxLinks, n, o) /\ connect_records(n, o, m)

SpecLinking == Init /\ [][NextLinking]_vars

(***************************************************************************)
(* Vocabulary of the properties                                            *)
(***************************************************************************)
Range(f) == {f[k] : k \in DOMAIN f}

(* o.member_links[S] in heap h, the empty sequence when the key is absent *)
MembersOf(h, o, S) ==
    IF DictHas(h[o].member_links, S) THEN DictGet(h[o].member_links, S) ELSE <<>>

Count(x, seq) == Cardinality({i \in 1..Len(seq) : seq[i] = x})

Lists(seq, x) == \E i \in 1..Len(seq) : seq[i] = x

(* the instance entries of set S, in NetworkDatabase.sets st, whose owner is o *)
EntriesOf(st, S, o) ==
    {i \in 1..Len(st[S].instances) : st[S].instances[i].owner = o}

StoredIds == {heap[r].record_id : r \in stored}

(* the step is a call of `name` *)
Called(name) == op'.name = name

(***************************************************************************)
(* The sample run: a part of build_sample_database (two set types, five    *)
(* records, three connects, issued in any order but each connect after the *)
(* definition of its set), followed by the navigation find_record("E002"), *)
(* find_members_in_set("EMP_PROJ"), find_owner_in_set("DEPT_EMP"),         *)
(* find_owner_in_set("EMP_PROJ"), in this order.                           *)
(***************************************************************************)
SamplePool ==
    <<Record("Department", "Engineering", "D001"),
      Record("Employee", "Alice", "E001"),
      Record("Employee", "Bob", "E002"),
      Record("Project", "Project Alpha", "P001"),
      Record("Project", "Project Beta", "P002")>>

(* the Record object that was constructed with this record_id *)
Sample(record_id) == CHOOSE r \in Objs : heap[r].record_id = record_id

SampleSets ==
    {<<"DEPT_EMP", "Department", "Employee">>, <<"EMP_PROJ", "Employee", "Project">>}

SampleConnects ==
    {<<"DEPT_EMP", "D001", "E001">>, <<"DEPT_EMP", "D001", "E002">>,
     <<"EMP_PROJ", "E002", "P002">>}

InitSample ==
    /\ heap = SamplePool
    /\ records = <<>>
    /\ sets = <<>>
    /\ current_record = None
    /\ stored = {}
    /\ connected = <<>>
    /\ op = Call("__init__")
    /\ ret = RetNone
    /\ nodes = <<>>
    /\ root = None

(* the connect c of the sample has been made *)
SampleConnected(c) ==
    \E i \in 1..Len(MembersOf(heap, Sample(c[2]), c[1])) :
        MembersOf(heap, Sample(c[2]), c[1])[i] = Sample(c[3])

SampleBuilt ==
    /\ \A s \in SampleSets : s[1] \in DOMAIN sets
    /\ \A r \in Objs : heap[r].record_id \in DOMAIN records
    /\ \A c \in SampleConnects : SampleConnected(c)

NextSample ==
    \/ \E s \in SampleSets :
           s[1] \notin DOMAIN sets /\ define_set(s[1], s[2], s[3])
    \/ \E r \in Objs :
           heap[r].record_id \notin DOMAIN records /\ store_record(r)
    \/ \E c \in SampleConnects :
           /\ c[1] \in DOMAIN sets
           /\ ~SampleConnected(c)
           /\ connect_records(c[1], Sample(c[2]), Sample(c[3]))
    \/ /\ SampleBuilt
       /\ op.name \in {"define_set", "store_record", "connect_records"}
       /\ find_record("E002")
    \/ /\ op.name = "find_record"
       /\ find_members_in_set("EMP_PROJ")
    \/ /\ op.name = "find_members_in_set"
       /\ find_owner_in_set("DEPT_EMP")
    \/ /\ op.name = "find_owner_in_set"
       /\ op.set_name = "DEPT_EMP"
       /\ find_owner_in_set("EMP_PROJ")

SpecSample == InitSample /\ [][NextSample]_vars

(***************************************************************************)
(* C1 (as stated): for every record R that has been passed to              *)
(* store_record, find_record(R.record_id) returns R and sets               *)
(* current_record to R; for an id that was never stored, find_record       *)
(* returns None and current_record keeps its value.                        *)
(***************************************************************************)
C1_FindEveryStoredRecord ==
    [][Called("find_record") =>
          /\ \A R \in stored :
                heap[R].record_id = op'.record_id =>
                    /\ ret' = RetRecord(R)
                    /\ current_record' = R
          /\ op'.record_id \notin StoredIds =>
                    /\ ret' = RetNone
                    /\ current_record' = current_record]_vars

(***************************************************************************)
(* C1 (amended): for every record R that records holds, i.e. the record    *)
(* most recently passed to store_record under its record_id,               *)
(* find_record(R.record_id) returns R and sets current_record to R; for an *)
(* id that was never stored, find_record returns None and current_record   *)
(* keeps its value.                                                        *)
(***************************************************************************)
C1_FindRecordInRecords ==
    [][Called("find_record") =>
          /\ \A R \in Range(records) :
                heap[R].record_id = op'.record_id =>
                    /\ ret' = RetRecord(R)
                    /\ current_record' = R
          /\ op'.record_id \in StoredIds =>
                    \E R \in Range(records) : heap[R].record_id = op'.record_id
          /\ op'.record_id \notin StoredIds =>
                    /\ ret' = RetNone
                    /\ current_record' = current_record]_vars

(* find_record has just found a record that replaced an earlier one of the same id *)
C1_Witness ==
    /\ op.name = "find_record"
    /\ ret.kind = "Record"
    /\ current_record = ret.rec
    /\ \E R \in stored : R # ret.rec /\ heap[R].record_id = op.record_id

(***************************************************************************)
(* C2: immediately after connect_records(S, o, m) with S a registered set, *)
(* for any records o and m, m.owner_links[S] is o and the number of        *)
(* occurrences of m in o.member_links[S] has grown by exactly one.         *)
(***************************************************************************)
C2_ConnectLinksBothWays ==
    [][(Called("connect_records") /\ op'.set_name \in DOMAIN sets) =>
          /\ DictHas(heap'[op'.member].owner_links, op'.set_name)
          /\ DictGet(heap'[op'.member].owner_links, op'.set_name) = op'.owner
          /\ Count(op'.member, MembersOf(heap', op'.owner, op'.set_name))
                = Count(op'.member, MembersOf(heap, op'.owner, op'.set_name)) + 1]_vars

(***************************************************************************)
(* C3 (as stated): current_record is None or refers to a Record that is    *)
(* present in records.                                                     *)
(***************************************************************************)
C3_CursorInRecords ==
    current_record = None \/ current_record \in Range(records)

(***************************************************************************)
(* C3 (amended): current_record is None, or refers to a Record that was    *)
(* passed to store_record (it may since have been replaced in records by   *)
(* another Record of the same record_id), or refers to a Record that owns  *)
(* members in some set (an owner reached by find_owner_in_set need never   *)
(* have been stored).                                                      *)
(***************************************************************************)
C3_CursorStoredOrOwner ==
    \/ current_record = None
    \/ current_record \in stored
    \/ \E S \in DictKeys(heap[current_record].member_links) :
           Len(MembersOf(heap, current_record, S)) > 0

(* the cursor sits on an owner that was never stored *)
C3_Witness ==
    /\ current_record # None
    /\ current_record \notin stored
    /\ op.name = "find_owner_in_set"

(***************************************************************************)
(* C4: a NetworkSet holds at most one instance entry per owner, owners     *)
(* being identified by record_id: no two entries of instances have owners  *)
(* with the same record_id.                                                *)
(***************************************************************************)
C4_OneInstancePerOwnerId ==
    \A S \in DOMAIN sets :
        \A i, j \in 1..Len(sets[S].instances) :
            heap[sets[S].instances[i].owner].record_id
                = heap[sets[S].instances[j].owner].record_id => i = j

(***************************************************************************)
(* C5 (as stated): for every registered set S and every record o, S has an *)
(* instance entry for owner o exactly when o.member_links contains S, and  *)
(* then the entry's member sequence equals o.member_links[S].              *)
(***************************************************************************)
C5_LinksMatchInstances ==
    \A S \in DOMAIN sets : \A o \in Objs :
        /\ (EntriesOf(sets, S, o) # {}) <=> DictHas(heap[o].member_links, S)
        /\ \A i \in EntriesOf(sets, S, o) :
               sets[S].instances[i].members = MembersOf(heap, o, S)

(***************************************************************************)
(* C5 (amended): for every registered set S, if S has an instance entry    *)
(* for owner o then o.member_links contains S, and every member the entry  *)
(* lists is listed in the member_links[S] of a Record with o's record_id   *)
(* (the converse fails once S is redefined, and the two sequences need not *)
(* be equal).                                                              *)
(***************************************************************************)
C5_InstancesHaveLinks ==
    \A S \in DOMAIN sets : \A i \in 1..Len(sets[S].instances) :
        LET e == sets[S].instances[i]
        IN  /\ DictHas(heap[e.owner].member_links, S)
            /\ \A j \in 1..Len(e.members) :
                   \E o \in Objs :
                       /\ heap[o].record_id = heap[e.owner].record_id
                       /\ Lists(MembersOf(heap, o, S), e.members[j])

(* a set that was redefined after a connect: the owner keeps its links, the set has no entry *)
C5_Witness ==
    \E S \in DOMAIN sets : \E o, p \in Objs :
        /\ EntriesOf(sets, S, o) # {}
        /\ DictHas(heap[o].member_links, S)
        /\ EntriesOf(sets, S, p) = {}
        /\ DictHas(heap[p].member_links, S)

(***************************************************************************)
(* C6: find_owner_in_set(S), when the cursor is positioned on a record     *)
(* whose owner_links contains S, returns that owner and the cursor         *)
(* afterwards is that owner; in every other case it returns None and the   *)
(* cursor is unchanged.  It never modifies records, sets or any link map.  *)
(***************************************************************************)
C6_FindOwnerInSet ==
    [][Called("find_owner_in_set") =>
          /\ IF /\ current_record # None
                /\ op'.set_name \in DictKeys(heap[current_record].owner_links)
             THEN \E i \in 1..Len(heap[current_record].owner_links) :
                      /\ heap[current_record].owner_links[i].key = op'.set_name
                      /\ ret' = RetRecord(heap[current_record].owner_links[i].val)
                      /\ current_record' = heap[current_record].owner_links[i].val
             ELSE /\ ret' = RetNone
                  /\ current_record' = current_record
          /\ heap' = heap
          /\ records' = records
          /\ sets' = sets]_vars

(* find_owner_in_set has just moved the cursor from a member to its owner *)
C6_Witness ==
    /\ op.name = "find_owner_in_set"
    /\ ret.kind = "Record"
    /\ current_record = ret.rec
    /\ \E m \in Objs : m # current_record
           /\ DictHas(heap[m].owner_links, op.set_name)
           /\ DictGet(heap[m].owner_links, op.set_name) = current_record

(***************************************************************************)
(* C7: find_members_in_set(S) never changes the cursor: it returns the     *)
(* cursor record's member_links[S] when the cursor is positioned and has   *)
(* such a link, an empty sequence otherwise, and leaves current_record,    *)
(* records, sets and all link maps unchanged.                              *)
(***************************************************************************)
C7_FindMembersInSet ==
    [][Called("find_members_in_set") =>
          /\ ret' = RetList(IF current_record = None THEN <<>>
                            ELSE MembersOf(heap, current_record, op'.set_name))
          /\ current_record' = current_record
          /\ heap' = heap
          /\ records' = records
          /\ sets' = sets]_vars

(* find_members_in_set has just returned a non-empty member sequence *)
C7_Witness ==
    /\ op.name = "find_members_in_set"
    /\ current_record # None
    /\ Len(ret.list) > 0
    /\ ret.list = MembersOf(heap, current_record, op.set_name)

(***************************************************************************)
(* C8: connect_records(S, o, m) with S not a registered set name is a      *)
(* no-op: records, sets, the owner_links and member_links of every record  *)
(* and the cursor are unchanged, and no error is raised.                   *)
(***************************************************************************)
C8_ConnectUnknownSetIsNoOp ==
    [][(Called("connect_records") /\ op'.set_name \notin DOMAIN sets) =>
          /\ heap' = heap
          /\ records' = records
          /\ sets' = sets
          /\ current_record' = current_record
          /\ ret' = RetNone]_vars

(* connect_records has just been called with an unregistered set name *)
C8_Witness ==
    /\ op.name = "connect_records"
    /\ op.set_name \notin DOMAIN sets
    /\ op.owner # op.member
    /\ ret = RetNone

(***************************************************************************)
(* C9 (as stated): if member m is connected under S to owner o1 and later  *)
(* connected under the same S to a different owner o2, then afterwards     *)
(* m.owner_links[S] is o2, while o1.member_links[S] and o1's instance      *)
(* entry in S still list m.                                                *)
(***************************************************************************)
C9_ReconnectKeepsStaleEntry ==
    [][\A o1 \in Objs :
          (/\ Called("connect_records")
           /\ op'.set_name \in DOMAIN sets
           /\ ret' = RetNone
           /\ DictHas(heap[op'.member].owner_links, op'.set_name)
           /\ DictGet(heap[op'.member].owner_links, op'.set_name) = o1
           /\ o1 # op'.owner) =>
              /\ DictGet(heap'[op'.member].owner_links, op'.set_name) = op'.owner
              /\ Lists(MembersOf(heap', o1, op'.set_name), op'.member)
              /\ \E i \in EntriesOf(sets', op'.set_name, o1) :
                     Lists(sets'[op'.set_name].instances[i].members, op'.member)]_vars

(***************************************************************************)
(* C9 (amended): if member m is connected under S to owner o1 and later    *)
(* connected under the same S to a different owner o2, then afterwards     *)
(* m.owner_links[S] is o2 and only o2, while o1.member_links[S] still      *)
(* lists m (o1's instance entry in S need not: S may have been redefined   *)
(* in between, which drops every entry).                                   *)
(***************************************************************************)
C9_ReconnectKeepsStaleLink ==
    [][\A o1 \in Objs :
          (/\ Called("connect_records")
           /\ op'.set_name \in DOMAIN sets
           /\ ret' = RetNone
           /\ DictHas(heap[op'.member].owner_links, op'.set_name)
           /\ DictGet(heap[op'.member].owner_links, op'.set_name) = o1
           /\ o1 # op'.owner) =>
              /\ DictGet(heap'[op'.member].owner_links, op'.set_name) = op'.owner
              /\ Cardinality({i \in 1..Len(heap'[op'.member].owner_links) :
                     heap'[op'.member].owner_links[i].key = op'.set_name}) = 1
              /\ Lists(MembersOf(heap', o1, op'.set_name), op'.member)]_vars

(* a member has just been connected to a second owner; the first still lists it *)
C9_Witness ==
    /\ op.name = "connect_records"
    /\ op.set_name \in DOMAIN sets
    /\ ret = RetNone
    /\ DictHas(heap[op.member].owner_links, op.set_name)
    /\ DictGet(heap[op.member].owner_links, op.set_name) = op.owner
    /\ \E o1 \in Objs : o1 # op.owner
           /\ Lists(MembersOf(heap, o1, op.set_name), op.member)

(***************************************************************************)
(* C10: the cursor of a new engine is unset, and it changes value only in  *)
(* a successful find_record step or a successful find_owner_in_set step,   *)
(* the latter only from an already positioned cursor; define_set,          *)
(* store_record, connect_records, find_members_in_set, a find_record miss  *)
(* and a failed find_owner_in_set leave current_record as it was.          *)
(***************************************************************************)
C10_CursorMovesOnlyOnFind ==
    /\ current_record = None
    /\ [][current_record' # current_record =>
             \/ Called("find_record") /\ ret'.kind = "Record"
             \/ /\ Called("find_owner_in_set")
                /\ ret'.kind = "Record"
                /\ current_record # None]_vars

(* find_owner_in_set has moved a positioned cursor to another record *)
C10_Witness ==
    /\ op.name = "find_owner_in_set"
    /\ ret.kind = "Record"
    /\ current_record = ret.rec
    /\ \E m \in Objs : m # current_record /\ m \in Range(records)
           /\ DictHas(heap[m].owner_links, op.set_name)
           /\ DictGet(heap[m].owner_links, op.set_name) = current_record

(***************************************************************************)
(* C11: define_set(n, ot, mt) always completes, and afterwards sets[n] is  *)
(* a NetworkSet with set_name n, owner_type ot, member_type mt and no      *)
(* instances, whether or not n was registered before; sets has the keys it *)
(* had plus n, and every other entry of sets is unchanged.                 *)
(***************************************************************************)
C11_DefineSetReplaces ==
    [][Called("define_set") =>
          /\ ret' = RetNone
          /\ DOMAIN sets' = DOMAIN sets \cup {op'.set_name}
          /\ sets'[op'.set_name].set_name = op'.set_name
          /\ sets'[op'.set_name].owner_type = op'.owner_type
          /\ sets'[op'.set_name].member_type = op'.member_type
          /\ sets'[op'.set_name].instances = <<>>
          /\ \A n \in DOMAIN sets \ {op'.set_name} : sets'[n] = sets[n]]_vars

(* a set with links under its name has just been redefined with other     *)
(* types and is empty again, next to another set that keeps its instance   *)
C11_Witness ==
    /\ op.name = "define_set"
    /\ sets[op.set_name].instances = <<>>
    /\ \E o \in Objs : MembersOf(heap, o, op.set_name) # <<>>
    /\ \E o \in Objs : \E i \in 1..Len(heap[o].member_links) :
           /\ heap[o].member_links[i].key = op.set_name
           /\ heap[heap[o].member_links[i].val[1]].record_type # op.member_type
    /\ \E n \in DOMAIN sets : n # op.set_name /\ sets[n].instances # <<>>

(***************************************************************************)
(* C12: store_record(r) returns r and is an upsert keyed by record_id:     *)
(* afterwards records[r.record_id] is r, every other key maps to the       *)
(* record it mapped to before, and the number of keys grows by one when    *)
(* the id is new and by zero when it was present.                          *)
(***************************************************************************)
C12_StoreRecordUpserts ==
    [][Called("store_record") =>
          LET r  == op'.record
              id == heap[op'.record].record_id
          IN  /\ ret' = RetRecord(r)
              /\ id \in DOMAIN records'
              /\ records'[id] = r
              /\ \A k \in DOMAIN records \ {id} :
                     k \in DOMAIN records' /\ records'[k] = records[k]
              /\ Cardinality(DOMAIN records') =
                     Cardinality(DOMAIN records)
                         + (IF id \in DOMAIN records THEN 0 ELSE 1)]_vars

(* a stored record has just replaced another record of the same id, next   *)
(* to a record stored under another id                                     *)
C12_Witness ==
    /\ op.name = "store_record"
    /\ records[heap[op.record].record_id] = op.record
    /\ \E R \in stored : R # op.record
           /\ heap[R].record_id = heap[op.record].record_id
    /\ \E k \in DOMAIN records : k # heap[op.record].record_id

(***************************************************************************)
(* C13: no engine operation ever ends in a fault: every call of            *)
(* define_set, store_record, find_record, connect_records,                 *)
(* find_owner_in_set and find_members_in_set completes normally, a lookup  *)
(* that misses yields None, and find_members_in_set always yields a        *)
(* sequence (the empty one on a miss).                                     *)
(***************************************************************************)
C13_NoOperationFaults ==
    /\ ret.kind # "RecursionError"
    /\ op.name \in {"define_set", "connect_records"} => ret = RetNone
    /\ op.name \in {"store_record", "find_record", "find_owner_in_set"} =>
           ret.kind \in {"None", "Record"}
    /\ op.name = "find_members_in_set" => ret.kind = "list"

(***************************************************************************)
(* C14: in the sample run (DEPT_EMP and EMP_PROJ defined; D001, E001,      *)
(* E002, P001, P002 stored; D001->E001 and D001->E002 connected under      *)
(* DEPT_EMP, E002->P002 under EMP_PROJ) find_record("E002") yields E002    *)
(* with the cursor on E002, then find_members_in_set("EMP_PROJ") yields    *)
(* [P002] with the cursor still on E002, then                              *)
(* find_owner_in_set("DEPT_EMP") yields D001 with the cursor on D001, then *)
(* find_owner_in_set("EMP_PROJ") yields None with the cursor still on D001.*)
(***************************************************************************)
C14_SampleNavigation ==
    /\ op.name = "find_record" =>
           ret = RetRecord(Sample("E002")) /\ current_record = Sample("E002")
    /\ op.name = "find_members_in_set" =>
           ret = RetList(<<Sample("P002")>>) /\ current_record = Sample("E002")
    /\ op.name = "find_owner_in_set" /\ op.set_name = "DEPT_EMP" =>
           ret = RetRecord(Sample("D001")) /\ current_record = Sample("D001")
    /\ op.name = "find_owner_in_set" /\ op.set_name = "EMP_PROJ" =>
           ret = RetNone /\ current_record = Sample("D001")

(* the run has reached its last call *)
C14_Witness ==
    /\ op.name = "find_owner_in_set"
    /\ op.set_name = "EMP_PROJ"
    /\ SampleBuilt
    /\ ret = RetNone
    /\ current_record = Sample("D001")

(* d.get(k) as a sequence: <<d[k]>> when the key is present, <<>> when absent *)
Lookup(d, k) == IF DictHas(d, k) THEN <<DictGet(d, k)>> ELSE <<>>

(***************************************************************************)
(* C15: link maps are mutated only by connect.  A step of define_set,      *)
(* store_record, find_record, find_owner_in_set or find_members_in_set     *)
(* leaves the owner_links and member_links of every record unchanged.  A   *)
(* successful connect_records(S, o, m) changes no link other than          *)
(* o.member_links[S] and m.owner_links[S] and no set other than S (of      *)
(* which only the instances change), and leaves records and the cursor     *)
(* unchanged.                                                              *)
(***************************************************************************)
C15_OnlyConnectChangesLinks ==
    [][/\ ~Called("connect_records") =>
              \A r \in Objs :
                  /\ heap'[r].owner_links = heap[r].owner_links
                  /\ heap'[r].member_links = heap[r].member_links
       /\ (/\ Called("connect_records")
           /\ op'.set_name \in DOMAIN sets
           /\ ret' = RetNone) =>
              /\ \A r \in Objs : \A n \in SchemaNames :
                     /\ (r # op'.owner \/ n # op'.set_name) =>
                            Lookup(heap'[r].member_links, n)
                                = Lookup(heap[r].member_links, n)
                     /\ (r # op'.member \/ n # op'.set_name) =>
                            Lookup(heap'[r].owner_links, n)
                                = Lookup(heap[r].owner_links, n)
              /\ \A r \in Objs :
                     /\ heap'[r].record_type = heap[r].record_type
                     /\ heap'[r].data = heap[r].data
                     /\ heap'[r].record_id = heap[r].record_id
              /\ DOMAIN sets' = DOMAIN sets
              /\ \A n \in DOMAIN sets \ {op'.set_name} : sets'[n] = sets[n]
              /\ sets'[op'.set_name] =
                     [sets[op'.set_name] EXCEPT
                          !.instances = sets'[op'.set_name].instances]
              /\ records' = records
              /\ current_record' = current_record]_vars

(* a connect under one set name has just linked an owner and a member that *)
(* already carry links under the other set name, whose instance is kept,   *)
(* while records holds a record and the cursor is positioned               *)
C15_Witness ==
    /\ op.name = "connect_records"
    /\ op.set_name \in DOMAIN sets
    /\ ret = RetNone
    /\ \E n \in DOMAIN sets : n # op.set_name
           /\ sets[n].instances # <<>>
           /\ MembersOf(heap, op.owner, n) # <<>>
           /\ DictHas(heap[op.member].owner_links, n)
    /\ Lists(MembersOf(heap, op.owner, op.set_name), op.member)
    /\ records # <<>>
    /\ current_record # None

(* the index of the first occurrence of x in seq, 0 when seq does not list x *)
FirstIndex(seq, x) ==
    IF Lists(seq, x) THEN CHOOSE i \in 1..Len(seq) :
                              seq[i] = x /\ \A j \in 1..(i - 1) : seq[j] # x
    ELSE 0

(***************************************************************************)
(* C16: in every reachable state each instance entry of a registered       *)
(* NetworkSet has at least one member, the set has an entry for owner o    *)
(* exactly when at least one connect under the set's current definition    *)
(* had o as owner, and the entries appear in the order in which their      *)
(* owners were first connected.                                            *)
(***************************************************************************)
C16_InstancesFollowConnects ==
    \A S \in DOMAIN sets :
        /\ \A i \in 1..Len(sets[S].instances) :
               Len(sets[S].instances[i].members) >= 1
        /\ \A o \in Objs : EntriesOf(sets, S, o) # {} <=> Lists(connected[S], o)
        /\ \A i, j \in 1..Len(sets[S].instances) :
               i < j => FirstIndex(connected[S], sets[S].instances[i].owner)
                            < FirstIndex(connected[S], sets[S].instances[j].owner)

(***************************************************************************)
(* C17 (as stated): whenever find_owner_in_set(S) returns a record,        *)
(* current_record after the call is a different record from                *)
(* current_record before the call, for every reachable link structure.     *)
(***************************************************************************)
C17_FindOwnerChangesCursor ==
    [][Called("find_owner_in_set") /\ ret'.kind = "Record" =>
          current_record' # current_record]_vars

(***************************************************************************)
(* C17 (amended): whenever find_owner_in_set(S) returns a record,          *)
(* current_record after the call is the returned record, the owner link    *)
(* under S of the record the cursor was on; it is a different record from  *)
(* current_record before the call exactly when that record is not linked   *)
(* as its own owner under S.                                               *)
(***************************************************************************)
C17_FindOwnerAssignsCursor ==
    [][Called("find_owner_in_set") /\ ret'.kind = "Record" =>
          /\ current_record # None
          /\ DictHas(heap[current_record].owner_links, op'.set_name)
          /\ current_record' = ret'.rec
          /\ ret'.rec = DictGet(heap[current_record].owner_links, op'.set_name)
          /\ current_record' # current_record <=>
                 DictGet(heap[current_record].owner_links, op'.set_name)
                     # current_record]_vars

(* find_owner_in_set has succeeded on a record that is its own owner, the  *)
(* only record with an owner link under the set name: the cursor is where  *)
(* it was                                                                  *)
C17_Witness ==
    /\ op.name = "find_owner_in_set"
    /\ ret.kind = "Record"
    /\ ret.rec = current_record
    /\ DictHas(heap[current_record].owner_links, op.set_name)
    /\ DictGet(heap[current_record].owner_links, op.set_name) = current_record
    /\ \A r \in Objs : r # current_record =>
           ~DictHas(heap[r].owner_links, op.set_name)

(***************************************************************************)
(* C18: once the cursor is positioned it never becomes unset again: if     *)
(* current_record is a record in some state, it is a record (not None) in  *)
(* every later state, whatever operations follow, failed lookups included. *)
(***************************************************************************)
C18_CursorStaysPositioned ==
    [][current_record # None => current_record' # None]_vars

(* a lookup has just failed while the cursor was positioned *)
C18_Witness ==
    /\ current_record # None
    /\ op.name \in {"find_record", "find_owner_in_set"}
    /\ ret = RetNone

(***************************************************************************)
(* C19: a backward link always has a matching forward link: in every       *)
(* reachable state, for every record m and set name S, if                  *)
(* m.owner_links[S] is o then m occurs at least once in                    *)
(* o.member_links[S].                                                      *)
(***************************************************************************)
C19_OwnerLinkHasMemberLink ==
    \A m \in Objs : \A i \in 1..Len(heap[m].owner_links) :
        Lists(MembersOf(heap, heap[m].owner_links[i].val,
                        heap[m].owner_links[i].key), m)

(* a record has an owner link, and another record that is not its owner    *)
(* lists it as a member as well: the converse does not hold                *)
C19_Witness ==
    \E m \in Objs : \E S \in SetNames :
        /\ DictHas(heap[m].owner_links, S)
        /\ Lists(MembersOf(heap, DictGet(heap[m].owner_links, S), S), m)
        /\ \E o1 \in Objs : /\ o1 # DictGet(heap[m].owner_links, S)
                            /\ Lists(MembersOf(heap, o1, S), m)

(* seq is the beginning of the sequence longer *)
IsPrefix(seq, longer) ==
    /\ Len(seq) <= Len(longer)
    /\ \A i \in 1..Len(seq) : seq[i] = longer[i]

(***************************************************************************)
(* C20: member sequences are append-only and keep connect order: for every *)
(* record o and set name S, across any single operation the old value of   *)
(* o.member_links[S] is a prefix of the new value; the value changes only  *)
(* in a successful connect_records(S, o, m), which puts m at its end, so   *)
(* no entry is ever removed or reordered.                                  *)
(***************************************************************************)
C20_MemberLinksAppendOnly ==
    [][IF heap' = heap
       THEN \* no member sequence has changed, so no connect has completed
            ~(/\ Called("connect_records")
              /\ ret' = RetNone
              /\ op'.set_name \in DOMAIN sets)
       ELSE \A o \in Objs : \A S \in SetNames :
                LET old == MembersOf(heap, o, S)
                    new == MembersOf(heap', o, S)
                    appends == /\ Called("connect_records")
                               /\ ret' = RetNone
                               /\ op'.set_name \in DOMAIN sets
                               /\ op'.owner = o
                               /\ op'.set_name = S
                IN  /\ IsPrefix(old, new)
                    /\ new # old => appends
                    /\ appends => new = Append(old, op'.member)]_vars

(* a connect has just put a second, different member behind the first *)
C20_Witness ==
    /\ op.name = "connect_records"
    /\ ret = RetNone
    /\ Len(MembersOf(heap, op.owner, op.set_name)) = 2
    /\ MembersOf(heap, op.owner, op.set_name)[2] = op.member
    /\ MembersOf(heap, op.owner, op.set_name)[1] # op.member

(***************************************************************************)
(* The hierarchical database of hierarchical_database_model.py:            *)
(* HierarchicalNode objects live in `nodes`, indexed by object identity,   *)
(* and HierarchicalDatabase.root refers to one of them or is None.  The    *)
(* callers build a tree node by node and navigate it by index paths.       *)
(***************************************************************************)
MaxNodes == 4

MaxPathLen == 2

MaxIndex == 2

(* the child indexes a caller passes, negative ones included *)
Indexes == (0 - MaxIndex)..MaxIndex

RECURSIVE PathsOfLen(_)
PathsOfLen(n) ==
    IF n = 0 THEN {<<>>}
    ELSE {Append(p, idx) : p \in PathsOfLen(n - 1), idx \in Indexes}

Paths == UNION {PathsOfLen(n) : n \in 0..MaxPathLen}

NodeData == {"TechCorp"}

network == <<heap, records, sets, current_record, stored, connected>>

(* HierarchicalNode(data, parent): the new object gets the next identity   *)
(* and is appended to its parent's children.                               *)
HierarchicalNode(ns, data, parent) ==
    LET new == Len(ns) + 1
        ns1 == Append(ns, [data |-> data, parent |-> parent, children |-> <<>>])
    IN  IF parent # None
        THEN [ns1 EXCEPT ![parent].children = Append(@, new)]
        ELSE ns1

RetNode(n) == [kind |-> "Node", rec |-> n, list |-> <<>>]

RetIndexError == [kind |-> "IndexError", rec |-> None, list |-> <<>>]

(* list[idx] of Python: a negative idx counts from the end, and an idx     *)
(* outside -len..len-1 raises IndexError.                                  *)
PyIndexInRange(list, idx) == 0 - Len(list) <= idx /\ idx < Len(list)

PyIndex(list, idx) == list[IF idx >= 0 THEN idx + 1 ELSE Len(list) + idx + 1]

(* the loop of navigate_from_root from the i-th index of path on *)
RECURSIVE NavigateFrom(_, _, _)
NavigateFrom(node, path, i) ==
    IF i > Len(path)
    THEN IF node = None THEN RetNone ELSE RetNode(node)
    ELSE IF node # None /\ path[i] < Len(nodes[node].children)
         THEN IF PyIndexInRange(nodes[node].children, path[i])
              THEN NavigateFrom(PyIndex(nodes[node].children, path[i]), path, i + 1)
              ELSE RetIndexError
         ELSE RetNone

InitHierarchy ==
    /\ heap = <<>>
    /\ records = <<>>
    /\ sets = <<>>
    /\ current_record = None
    /\ stored = {}
    /\ connected = <<>>
    /\ op = Call("__init__")
    /\ ret = RetNone
    /\ nodes = <<>>
    /\ root = None

(* self.root = HierarchicalNode(data) *)
new_root(data) ==
    /\ Len(nodes) < MaxNodes
    /\ nodes' = HierarchicalNode(nodes, data, None)
    /\ root' = Len(nodes) + 1
    /\ op' = [name |-> "new_root", data |-> data]
    /\ ret' = RetNone
    /\ UNCHANGED network

(* HierarchicalNode(data, parent=parent) *)
new_child(data, parent) ==
    /\ Len(nodes) < MaxNodes
    /\ nodes' = HierarchicalNode(nodes, data, parent)
    /\ op' = [name |-> "new_child", data |-> data, parent |-> parent]
    /\ ret' = RetNone
    /\ UNCHANGED <<root, network>>

navigate_from_root(path) ==
    /\ op' = [name |-> "navigate_from_root", path |-> path]
    /\ ret' = NavigateFrom(root, path, 1)
    /\ UNCHANGED <<nodes, root, network>>

NextHierarchy ==
    \/ \E d \in NodeData : new_root(d)
    \/ \E d \in NodeData, p \in DOMAIN nodes : new_child(d, p)
    \/ \E path \in Paths : navigate_from_root(path)

SpecHierarchy == InitHierarchy /\ [][NextHierarchy]_vars

(* every index of path from the i-th on is a child index, 0 <= idx < number *)
(* of children, of the node reached so far                                 *)
RECURSIVE InRangeFrom(_, _, _)
InRangeFrom(node, path, i) ==
    \/ i > Len(path)
    \/ /\ node # None
       /\ 0 <= path[i]
       /\ path[i] < Len(nodes[node].children)
       /\ InRangeFrom(nodes[node].children[path[i] + 1], path, i + 1)

(* the node reached from `node` by an in-range path *)
RECURSIVE ReachedFrom(_, _, _)
ReachedFrom(node, path, i) ==
    IF i > Len(path) THEN node
    ELSE ReachedFrom(nodes[node].children[path[i] + 1], path, i + 1)

(***************************************************************************)
(* C21: navigate_from_root(path) returns the node reached from the root by *)
(* taking at each level the child at the given index when every index idx  *)
(* of path satisfies 0 <= idx < number of children of the node at that     *)
(* level, and returns None, without raising, for every other path: one     *)
(* with a negative or too large index, or a non-empty one when the root is *)
(* unset.                                                                  *)
(***************************************************************************)
C21_NavigateFromRoot ==
    op.name = "navigate_from_root" =>
        IF InRangeFrom(root, op.path, 1)
        THEN /\ ReachedFrom(root, op.path, 1) # None =>
                    ret = RetNode(ReachedFrom(root, op.path, 1))
             /\ ReachedFrom(root, op.path, 1) = None => ret = RetNone
        ELSE ret = RetNone

====
